---- MODULE Spec2Model ----
(***************************************************************************)
(* Model of the trigger-backed undo/redo CRUD engine of OpenMarch          *)
(* (electron/database/DatabaseActions.ts) over one application table, the  *)
(* shapes table of electron/database/tables/ShapeTable (createShapeTable). *)
(* The history module (database.history) is modelled from its contract.    *)
(***************************************************************************)
EXTENDS Integers, Sequences, FiniteSets, TLC

\* ---------------------------------------------------------------- bounds
MaxCalls == 2      \* mutation calls in one behaviour
MaxItems == 2      \* rows in one batch
MaxId == 3         \* largest row id used or handed out
MaxLog == 4        \* records of a history log given to the merge on its own
MaxGroup == 3      \* largest group tag in such a log
MaxClock == 2      \* ticks of the wall clock in one behaviour

Names == {"a", "b"}
Ids == 1..MaxId

\* ------------------------------------------------------------- JS values
\* an optional argument: absent, or present with a value
Undefined == <<>>
Some(v) == <<v>>
\* JS truthiness of an optional boolean
Truthy(u) == u = Some(TRUE)
\* a parameter default, as in `useNextUndoGroup = true`
WithDefault(u, dflt) == IF u = Undefined THEN Some(dflt) ELSE u

\* the id of an update item that carries none (no row has it)
NoId == 0
\* the value of `data` when a lookup has no row
NoRow == [absent |-> TRUE]
\* SQL NULL in a TEXT column
Null == "null"
\* a row as SELECT * returns it: the id and the other columns of the table
RowOf(rows, id) == ("id" :> id) @@ rows[id]

Max(S) == CHOOSE x \in S : \A y \in S : y <= x

\* ------------------------------------------------------- fault injection
\* A plan is the set of store statements that raise a fault in one call.
Pt(what, k) == <<what, k>>
PrePt == Pt("pre", 0)
OpenPt == Pt("open", 0)
SchemaPt == Pt("schema", 0)
WritePt(k) == Pt("write", k)
RefetchPt == Pt("refetch", 0)
MergePt == Pt("merge", 0)
UndoPt == Pt("undo", 0)
ClearPt == Pt("clear", 0)
FinalPt == Pt("final", 0)
QueryPt == Pt("query", 0)

\* ---------------------------------------------------- the history module
\* (database.history: group counter, change-capture triggers, undo, redo)
StartGroup == 0

getCurrentUndoGroup(d) == d.cur

\* (issued: the largest group value handed out so far)
incrementUndoGroup(d) ==
    [d EXCEPT !.cur = @ + 1, !.issued = Max({@, d.cur + 1})]

\* the change-capture trigger: one record per row statement, tagged with
\* the group active at the time of the write (call/use: who wrote it)
createUndoTriggers(d, kind, id, prior) ==
    [d EXCEPT !.hist = Append(@, [kind |-> kind, id |-> id, prior |-> prior,
                                  group |-> d.cur, call |-> d.call, use |-> d.use])]

GroupsOf(log) == {log[i].group : i \in DOMAIN log}

\* reverse one history record on the table
Reverse(rows, r) ==
    IF r.kind = "ins"
    THEN [i \in DOMAIN rows \ {r.id} |-> rows[i]]
    ELSE [i \in DOMAIN rows \cup {r.id} |-> IF i = r.id THEN r.prior ELSE rows[i]]

RECURSIVE ReplayReverse(_, _)
ReplayReverse(rows, recs) ==
    IF recs = <<>> THEN rows
    ELSE ReplayReverse(Reverse(rows, recs[Len(recs)]), SubSeq(recs, 1, Len(recs) - 1))

\* what the redo log keeps for a reversed record: the value to put back
RedoOf(rows, r, rg) ==
    [kind |-> r.kind, id |-> r.id,
     after |-> IF r.id \in DOMAIN rows THEN rows[r.id] ELSE NoRow,
     group |-> rg, call |-> r.call, use |-> r.use]

RECURSIVE RedoRecords(_, _, _)
RedoRecords(rows, recs, rg) ==
    IF recs = <<>> THEN <<>>
    ELSE <<RedoOf(rows, recs[Len(recs)], rg)>>
         \o RedoRecords(Reverse(rows, recs[Len(recs)]), SubSeq(recs, 1, Len(recs) - 1), rg)

\* undo: replay the records of the highest group of the history log in
\* reverse, move them to a new redo slot
performUndo(d) ==
    IF d.hist = <<>> THEN d
    ELSE LET g == Max(GroupsOf(d.hist))
             recs == SelectSeq(d.hist, LAMBDA r : r.group = g)
             rg == IF d.redo = <<>> THEN 1 ELSE Max(GroupsOf(d.redo)) + 1
         IN [d EXCEPT !.rows = ReplayReverse(d.rows, recs),
                      !.hist = SelectSeq(d.hist, LAMBDA r : r.group # g),
                      !.redo = d.redo \o RedoRecords(d.rows, recs, rg)]

\* discard the most recent redo slot
clearMostRecentRedo(d) ==
    IF d.redo = <<>> THEN d
    ELSE LET rg == Max(GroupsOf(d.redo))
         IN [d EXCEPT !.redo = SelectSeq(d.redo, LAMBDA r : r.group # rg)]

\* ------------------------------------------------------ DatabaseActions
\* a SQL aggregate over no rows is NULL: the empty set; otherwise {value}
SqlMax(S) == IF S = {} THEN {} ELSE {Max(S)}
\* JS truthiness of a number-or-null
TruthyNum(s) == s # {} /\ s # {0}

\* mutant: the previous group is taken to be the maximum minus one, without
\* asking the log whether a smaller group exists
decrementLastUndoGroup_NoGuard(d) ==
    LET maxGroup == SqlMax(GroupsOf(d.hist))
    IN IF maxGroup # {}
       THEN LET m == CHOOSE x \in maxGroup : TRUE
            IN [d EXCEPT !.hist = [i \in DOMAIN d.hist |->
                                      IF d.hist[i].group = m
                                      THEN [d.hist[i] EXCEPT !.group = m - 1]
                                      ELSE d.hist[i]]]
       ELSE d

\* mutant: the merge also sets the current group back to the previous group
decrementLastUndoGroup_LowersCurrent(d) ==
    LET maxGroup == SqlMax(GroupsOf(d.hist))
        previousGroup == SqlMax({g \in GroupsOf(d.hist) : \E m \in maxGroup : g < m})
    IN IF TruthyNum(previousGroup)
       THEN LET p == CHOOSE x \in previousGroup : TRUE
                m == CHOOSE x \in maxGroup : TRUE
            IN [d EXCEPT !.hist = [i \in DOMAIN d.hist |->
                                      IF d.hist[i].group = m
                                      THEN [d.hist[i] EXCEPT !.group = p]
                                      ELSE d.hist[i]],
                         !.cur = p]
       ELSE d

\* mutant: the previous group is moved up into the last group
decrementLastUndoGroup_RaisesPrevious(d) ==
    LET maxGroup == SqlMax(GroupsOf(d.hist))
        previousGroup == SqlMax({g \in GroupsOf(d.hist) : \E m \in maxGroup : g < m})
    IN IF TruthyNum(previousGroup)
       THEN LET p == CHOOSE x \in previousGroup : TRUE
                m == CHOOSE x \in maxGroup : TRUE
            IN [d EXCEPT !.hist = [i \in DOMAIN d.hist |->
                                      IF d.hist[i].group = p
                                      THEN [d.hist[i] EXCEPT !.group = m]
                                      ELSE d.hist[i]]]
       ELSE d

\* the merge of the last undo group into the one before it
decrementLastUndoGroup(d) ==
    LET maxGroup == SqlMax(GroupsOf(d.hist))
        previousGroup == SqlMax({g \in GroupsOf(d.hist) : \E m \in maxGroup : g < m})
    IN IF TruthyNum(previousGroup)
       THEN LET p == CHOOSE x \in previousGroup : TRUE
                m == CHOOSE x \in maxGroup : TRUE
            IN [d EXCEPT !.hist = [i \in DOMAIN d.hist |->
                                      IF d.hist[i].group = m
                                      THEN [d.hist[i] EXCEPT !.group = p]
                                      ELSE d.hist[i]]]
       ELSE d

\* results
\* (error: <<>> when the field is absent, else the message and its details)
Ok(data) == [kind |-> "return", success |-> TRUE, data |-> data, error |-> <<>>]
Fail(data, err) == [kind |-> "return", success |-> FALSE, data |-> data, error |-> err]
\* an exception that leaves the function instead of a result
Raw == [kind |-> "throw", success |-> FALSE, data |-> <<>>, error |-> <<"raw">>]

\* mutant: the not-found result carries no error
getItem_NoError(d, id, faulty) ==
    IF faulty THEN Fail(NoRow, <<"fault">>)
    ELSE IF id \notin DOMAIN d.rows THEN Fail(NoRow, <<>>)
    ELSE Ok(RowOf(d.rows, id))

\* mutant: the result of the SELECT is returned without the `!result` test
getItem_NoCheck(d, id, faulty) ==
    IF faulty THEN Fail(NoRow, <<"fault">>)
    ELSE IF id \notin DOMAIN d.rows THEN Ok(NoRow)
    ELSE Ok(RowOf(d.rows, id))

getItem(d, id, faulty) ==
    IF faulty THEN Fail(NoRow, <<"fault">>)
    ELSE IF id \notin DOMAIN d.rows THEN Fail(NoRow, <<"notFound">>)
    ELSE Ok(RowOf(d.rows, id))

RECURSIVE RowList(_, _)
RowList(rows, S) ==
    IF S = {} THEN <<>>
    ELSE LET m == CHOOSE x \in S : \A y \in S : x <= y
         IN <<RowOf(rows, m)>> \o RowList(rows, S \ {m})

\* mutant: an empty result is reported as a failure
getAllItems_EmptyFails(d, faulty) ==
    IF faulty THEN Fail(<<>>, <<"fault">>)
    ELSE IF DOMAIN d.rows = {} THEN Fail(<<>>, <<"noItems">>)
    ELSE Ok(RowList(d.rows, DOMAIN d.rows))

getAllItems(d, faulty) ==
    IF faulty THEN Fail(<<>>, <<"fault">>) ELSE Ok(RowList(d.rows, DOMAIN d.rows))


\* lastInsertRowid of an INTEGER PRIMARY KEY column without AUTOINCREMENT
lastInsertRowid(rows) == IF DOMAIN rows = {} THEN 1 ELSE Max(DOMAIN rows) + 1

\* the columns of the shapes table, and the tables the engine may be given:
\* created_at and updated_at are optional
ShapeColumns == {"id", "name", "created_at", "updated_at", "notes"}
ColumnSets == {ShapeColumns \ S : S \in SUBSET {"created_at", "updated_at"}}

\* PRAGMA table_info, read in every call
getColumns(d) == d.cols

\* new Date(): the wall clock may advance before the k-th row of a batch
Tick(d, k) == IF k \in d.ticks THEN [d EXCEPT !.now = @ + 1] ELSE d

\* mutant: the id the caller supplied stays in the object
Rest_KeepsId(item) == item

\* `const { id, ...rest } = item`
Rest(item) == [c \in DOMAIN item \ {"id"} |-> item[c]]
\* mutant: the timestamp is set without asking for the column
Stamp_Always(item, col, columns, t) == (col :> t) @@ item

\* `if (columns.has(col)) item[col] = t`
Stamp(item, col, columns, t) == IF col \in columns THEN (col :> t) @@ item ELSE item

\* the object createItems binds to its INSERT
NewItem(d, item) ==
    LET createdAt == d.now
        columns == getColumns(d)
    IN Stamp(Stamp(Rest(item), "created_at", columns, createdAt),
             "updated_at", columns, createdAt)

\* the object updateItems binds to its UPDATE, without the id
UpdatedItem(d, item) ==
    LET updatedAt == d.now
        columns == getColumns(d)
    IN Rest(Stamp(item, "updated_at", columns, updatedAt))

\* a statement naming a column the table does not have is a SQL error
Binds(d, values) == DOMAIN values \subseteq d.cols \ {"id"}

\* INSERT: the named columns get the bound values, the others NULL
InsertRow(d, values) ==
    LET id == lastInsertRowid(d.rows)
        row == [c \in d.cols \ {"id"} |->
                   IF c \in DOMAIN values THEN values[c] ELSE Null]
        d1 == [d EXCEPT !.rows = [i \in DOMAIN d.rows \cup {id} |->
                                     IF i = id THEN row ELSE d.rows[i]]]
    IN createUndoTriggers(d1, "ins", id, NoRow)

\* mutant: the UPDATE has no WHERE clause
UpdateRow_NoWhere(d, id, values) ==
    IF id \in DOMAIN d.rows
    THEN createUndoTriggers([d EXCEPT !.rows = [i \in DOMAIN d.rows |->
                                                   values @@ d.rows[i]]],
                            "upd", id, d.rows[id])
    ELSE d

\* UPDATE ... WHERE rowid = id: the named columns change, the others stay
UpdateRow(d, id, values) ==
    IF id \in DOMAIN d.rows
    THEN createUndoTriggers([d EXCEPT !.rows[id] = values @@ d.rows[id]],
                            "upd", id, d.rows[id])
    ELSE d

\* mutant: the catch block does not undo the partial write
Compensate_SkipUndo(d, plan, run) ==
    IF ~run THEN [d |-> d, raw |-> FALSE, hit |-> {}]
    ELSE IF UndoPt \in plan THEN [d |-> d, raw |-> TRUE, hit |-> {UndoPt}]
    ELSE IF ClearPt \in plan THEN [d |-> d, raw |-> TRUE, hit |-> {UndoPt, ClearPt}]
    ELSE [d |-> d, raw |-> FALSE, hit |-> {UndoPt, ClearPt}]

\* mutant: the roll back undoes but keeps the redo slot of its undo
Compensate_KeepRedo(d, plan, run) ==
    IF ~run THEN [d |-> d, raw |-> FALSE, hit |-> {}]
    ELSE IF UndoPt \in plan THEN [d |-> d, raw |-> TRUE, hit |-> {UndoPt}]
    ELSE IF ClearPt \in plan
         THEN [d |-> performUndo(d), raw |-> TRUE, hit |-> {UndoPt, ClearPt}]
    ELSE [d |-> performUndo(d), raw |-> FALSE, hit |-> {UndoPt, ClearPt}]

\* the catch block's roll back: undo, then discard the redo slot
Compensate(d, plan, run) ==
    IF ~run THEN [d |-> d, raw |-> FALSE, hit |-> {}]
    ELSE IF UndoPt \in plan THEN [d |-> d, raw |-> TRUE, hit |-> {UndoPt}]
    ELSE IF ClearPt \in plan
         THEN [d |-> performUndo(d), raw |-> TRUE, hit |-> {UndoPt, ClearPt}]
    ELSE [d |-> clearMostRecentRedo(performUndo(d)), raw |-> FALSE,
          hit |-> {UndoPt, ClearPt}]

\* the finally block: advance the group when the call owns its undo step
Finalize(d, use, plan) ==
    IF ~Truthy(use) THEN [d |-> d, raw |-> FALSE, hit |-> {}]
    ELSE IF FinalPt \in plan THEN [d |-> d, raw |-> TRUE, hit |-> {FinalPt}]
    ELSE [d |-> incrementUndoGroup(d), raw |-> FALSE, hit |-> {FinalPt}]

\* mutant: the roll back runs whether or not a row was written
TryCatchFinally_AlwaysUndo(T, use, plan, undoGuard) ==
    LET C == Compensate(T.d, plan, T.threw)
        F == Finalize(C.d, use, plan)
    IN [d |-> F.d,
        out |-> IF C.raw \/ F.raw THEN Raw
                ELSE IF T.threw THEN Fail(<<>>, <<"fault">>)
                ELSE T.out,
        hit |-> T.hit \cup C.hit \cup F.hit]

\* mutant: the group is advanced at the end of the try block only
TryCatchFinally_NoFinally(T, use, plan, undoGuard) ==
    LET C == Compensate(T.d, plan, T.threw /\ undoGuard)
        F == IF T.threw THEN [d |-> C.d, raw |-> FALSE, hit |-> {}]
             ELSE Finalize(C.d, use, plan)
    IN [d |-> F.d,
        out |-> IF C.raw \/ F.raw THEN Raw
                ELSE IF T.threw THEN Fail(<<>>, <<"fault">>)
                ELSE T.out,
        hit |-> T.hit \cup C.hit \cup F.hit]

\* mutant: the catch block reports the failure and rolls nothing back
TryCatchFinally_NoRollback(T, use, plan, undoGuard) ==
    LET C == Compensate(T.d, plan, FALSE)
        F == Finalize(C.d, use, plan)
    IN [d |-> F.d,
        out |-> IF C.raw \/ F.raw THEN Raw
                ELSE IF T.threw THEN Fail(<<>>, <<"fault">>)
                ELSE T.out,
        hit |-> T.hit \cup C.hit \cup F.hit]

\* try / catch / finally around a try block result T
\* (T.threw: an exception left the try block; T.out: its output otherwise)
TryCatchFinally(T, use, plan, undoGuard) ==
    LET C == Compensate(T.d, plan, T.threw /\ undoGuard)
        F == Finalize(C.d, use, plan)
    IN [d |-> F.d,
        out |-> IF C.raw \/ F.raw THEN Raw
                ELSE IF T.threw THEN Fail(<<>>, <<"fault">>)
                ELSE T.out,
        hit |-> T.hit \cup C.hit \cup F.hit]

Thrown(d, act, hit) == [d |-> d, threw |-> TRUE, act |-> act, out |-> Raw, hit |-> hit]
Done(d, act, out, hit) == [d |-> d, threw |-> FALSE, act |-> act, out |-> out, hit |-> hit]

\* mutant: an id written twice is re-fetched once
RECURSIVE Refetch_Distinct(_, _)
Refetch_Distinct(d, ids) ==
    IF ids = <<>> THEN <<>>
    ELSE (IF \E j \in 2..Len(ids) : ids[j] = ids[1]
          THEN <<>> ELSE <<getItem(d, ids[1], FALSE).data>>)
         \o Refetch_Distinct(d, SubSeq(ids, 2, Len(ids)))

\* the re-fetch loop over the written ids
RECURSIVE Refetch(_, _)
Refetch(d, ids) ==
    IF ids = <<>> THEN <<>>
    ELSE <<getItem(d, ids[1], FALSE).data>> \o Refetch(d, SubSeq(ids, 2, Len(ids)))

\* mutant: a call that should fold keeps its own group
MergeStep_NoMerge(d, use, groupWasIncremented, actionWasPerformed, plan, out, hit) ==
    IF ~Truthy(use) /\ groupWasIncremented /\ actionWasPerformed
    THEN IF MergePt \in plan
         THEN Thrown(d, actionWasPerformed, hit \cup {MergePt})
         ELSE Done(d, actionWasPerformed, out, hit \cup {MergePt})
    ELSE Done(d, actionWasPerformed, out, hit)

\* mutant: the fold does not ask whether a row was written
MergeStep_AnyBatch(d, use, groupWasIncremented, actionWasPerformed, plan, out, hit) ==
    IF ~Truthy(use) /\ groupWasIncremented
    THEN IF MergePt \in plan
         THEN Thrown(d, actionWasPerformed, hit \cup {MergePt})
         ELSE Done(decrementLastUndoGroup(d), actionWasPerformed, out, hit \cup {MergePt})
    ELSE Done(d, actionWasPerformed, out, hit)

\* the group finalize step shared by the three operations
MergeStep(d, use, groupWasIncremented, actionWasPerformed, plan, out, hit) ==
    IF ~Truthy(use) /\ groupWasIncremented /\ actionWasPerformed
    THEN IF MergePt \in plan
         THEN Thrown(d, actionWasPerformed, hit \cup {MergePt})
         ELSE Done(decrementLastUndoGroup(d), actionWasPerformed, out, hit \cup {MergePt})
    ELSE Done(d, actionWasPerformed, out, hit)

\* ---- createItems
\* mutant: the group is advanced before every row instead of once
RECURSIVE InsertLoop_GroupPerRow(_, _, _, _, _)
InsertLoop_GroupPerRow(d, items, k, plan, ids) ==
    IF k > Len(items) THEN [d |-> d, threw |-> FALSE, ids |-> ids]
    ELSE LET dk == Tick(d, k)
             newItem == NewItem(dk, items[k])
             d0 == IF k > 1 THEN incrementUndoGroup(dk) ELSE dk
         IN IF WritePt(k) \in plan \/ ~Binds(dk, newItem)
            THEN [d |-> dk, threw |-> TRUE, ids |-> ids]
            ELSE InsertLoop_GroupPerRow(InsertRow(d0, newItem), items, k + 1, plan,
                                        Append(ids, lastInsertRowid(dk.rows)))

\* mutant: every INSERT binds the first item of the batch
RECURSIVE InsertLoop_FirstItem(_, _, _, _, _)
InsertLoop_FirstItem(d, items, k, plan, ids) ==
    IF k > Len(items) THEN [d |-> d, threw |-> FALSE, ids |-> ids]
    ELSE LET dk == Tick(d, k)
             newItem == NewItem(dk, items[1])
         IN IF WritePt(k) \in plan \/ ~Binds(dk, newItem)
            THEN [d |-> dk, threw |-> TRUE, ids |-> ids]
            ELSE InsertLoop_FirstItem(InsertRow(dk, newItem), items, k + 1, plan,
                                      Append(ids, lastInsertRowid(dk.rows)))

\* the insert loop: per item, strip the id, take the time, stamp, INSERT
RECURSIVE InsertLoop(_, _, _, _, _)
InsertLoop(d, items, k, plan, ids) ==
    IF k > Len(items) THEN [d |-> d, threw |-> FALSE, ids |-> ids]
    ELSE LET dk == Tick(d, k)
             newItem == NewItem(dk, items[k])
         IN IF WritePt(k) \in plan \/ ~Binds(dk, newItem)
            THEN [d |-> dk, threw |-> TRUE, ids |-> ids]
            ELSE InsertLoop(InsertRow(dk, newItem), items, k + 1, plan,
                            Append(ids, lastInsertRowid(dk.rows)))

WritePts(n) == {WritePt(k) : k \in 1..n}
\* the write statements reached by a loop that stops at the first fault
WritesHit(n, plan) ==
    {WritePt(k) : k \in {j \in 1..n : \A i \in 1..(j - 1) : WritePt(i) \notin plan}}

\* mutant: a batch without items is an error
CreateTry_EmptyThrows(d, items, use, plan) ==
    IF OpenPt \in plan THEN Thrown(d, FALSE, {OpenPt})
    ELSE
    LET currentUndoGroup == getCurrentUndoGroup(d)
        d1 == incrementUndoGroup(d)
        groupWasIncremented == currentUndoGroup # getCurrentUndoGroup(d1)
    IN  IF SchemaPt \in plan \/ items = <<>> THEN Thrown(d1, FALSE, {OpenPt, SchemaPt})
        ELSE
        LET L == InsertLoop(d1, items, 1, plan, <<>>)
            actionWasPerformed == Len(items) > 0
            h1 == {OpenPt, SchemaPt} \cup WritesHit(Len(items), plan)
        IN  IF L.threw THEN Thrown(L.d, actionWasPerformed, h1)
            ELSE IF L.ids # <<>> /\ RefetchPt \in plan
                 THEN Thrown(L.d, actionWasPerformed, h1 \cup {RefetchPt})
            ELSE MergeStep(L.d, use, groupWasIncremented, actionWasPerformed, plan,
                           Ok(Refetch(L.d, L.ids)),
                           h1 \cup (IF L.ids # <<>> THEN {RefetchPt} ELSE {}))

\* mutant: a row whose re-fetch finds nothing is left out of the result
CreateTry_ShortList(d, items, use, plan) ==
    IF OpenPt \in plan THEN Thrown(d, FALSE, {OpenPt})
    ELSE
    LET currentUndoGroup == getCurrentUndoGroup(d)
        d1 == incrementUndoGroup(d)
        groupWasIncremented == currentUndoGroup # getCurrentUndoGroup(d1)
    IN  IF SchemaPt \in plan THEN Thrown(d1, FALSE, {OpenPt, SchemaPt})
        ELSE
        LET L == InsertLoop(d1, items, 1, plan, <<>>)
            actionWasPerformed == Len(items) > 0
            h1 == {OpenPt, SchemaPt} \cup WritesHit(Len(items), plan)
        IN  IF L.threw THEN Thrown(L.d, actionWasPerformed, h1)
            ELSE IF L.ids # <<>> /\ RefetchPt \in plan
                 THEN MergeStep(L.d, use, groupWasIncremented, actionWasPerformed, plan,
                                Ok(Refetch(L.d, SubSeq(L.ids, 2, Len(L.ids)))),
                                h1 \cup {RefetchPt})
            ELSE MergeStep(L.d, use, groupWasIncremented, actionWasPerformed, plan,
                           Ok(Refetch(L.d, L.ids)),
                           h1 \cup (IF L.ids # <<>> THEN {RefetchPt} ELSE {}))

CreateTry(d, items, use, plan) ==
    IF OpenPt \in plan THEN Thrown(d, FALSE, {OpenPt})
    ELSE
    LET currentUndoGroup == getCurrentUndoGroup(d)
        d1 == incrementUndoGroup(d)
        groupWasIncremented == currentUndoGroup # getCurrentUndoGroup(d1)
    IN  IF SchemaPt \in plan THEN Thrown(d1, FALSE, {OpenPt, SchemaPt})
        ELSE
        LET L == InsertLoop(d1, items, 1, plan, <<>>)
            actionWasPerformed == Len(items) > 0
            h1 == {OpenPt, SchemaPt} \cup WritesHit(Len(items), plan)
        IN  IF L.threw THEN Thrown(L.d, actionWasPerformed, h1)
            ELSE IF L.ids # <<>> /\ RefetchPt \in plan
                 THEN Thrown(L.d, actionWasPerformed, h1 \cup {RefetchPt})
            ELSE MergeStep(L.d, use, groupWasIncremented, actionWasPerformed, plan,
                           Ok(Refetch(L.d, L.ids)),
                           h1 \cup (IF L.ids # <<>> THEN {RefetchPt} ELSE {}))

createItems(d, items, useNextUndoGroup, plan) ==
    LET use == WithDefault(useNextUndoGroup, TRUE)
    IN TryCatchFinally(CreateTry(d, items, use, plan), use, plan, TRUE)


\* ---- pre-validation of updateItems and deleteItems
\* the distinct ids of a list, in order of first occurrence (a JS Set)
RECURSIVE SetOrder(_, _)
SetOrder(ids, seen) ==
    IF ids = <<>> THEN <<>>
    ELSE IF ids[1] \in seen THEN SetOrder(SubSeq(ids, 2, Len(ids)), seen)
    ELSE <<ids[1]>> \o SetOrder(SubSeq(ids, 2, Len(ids)), seen \cup {ids[1]})

\* mutant: the check stops after the first id
RECURSIVE NotFoundIds_FirstOnly(_, _, _, _)
NotFoundIds_FirstOnly(d, ids, k, plan) ==
    IF k > Len(ids) \/ k > 1 THEN <<>>
    ELSE (IF getItem(d, ids[k], k = 1 /\ PrePt \in plan).data = NoRow
          THEN <<ids[k]>> ELSE <<>>)
         \o NotFoundIds_FirstOnly(d, ids, k + 1, plan)

\* the ids whose lookup yields no data (a store fault hits the first lookup)
RECURSIVE NotFoundIds(_, _, _, _)
NotFoundIds(d, ids, k, plan) ==
    IF k > Len(ids) THEN <<>>
    ELSE (IF getItem(d, ids[k], k = 1 /\ PrePt \in plan).data = NoRow
          THEN <<ids[k]>> ELSE <<>>)
         \o NotFoundIds(d, ids, k + 1, plan)

PreHit(ids) == IF ids = <<>> THEN {} ELSE {PrePt}

\* ---- updateItems
RECURSIVE UpdateLoop(_, _, _, _, _, _)
UpdateLoop(d, items, k, plan, ids, act) ==
    IF k > Len(items) THEN [d |-> d, threw |-> FALSE, ids |-> ids, act |-> act]
    ELSE IF items[k].id = NoId
    THEN UpdateLoop(Tick(d, k), items, k + 1, plan, ids, act)   \* skipped with a warning
    ELSE LET dk == Tick(d, k)
             id == items[k].id
             rest == UpdatedItem(dk, items[k])
         IN IF WritePt(k) \in plan \/ ~Binds(dk, rest) \/ DOMAIN rest = {}
            THEN [d |-> dk, threw |-> TRUE, ids |-> ids, act |-> act]
            ELSE UpdateLoop(UpdateRow(dk, id, rest), items, k + 1, plan,
                            Append(ids, id), TRUE)

UpdateTry(d, items, use, plan) ==
    IF OpenPt \in plan THEN Thrown(d, FALSE, {OpenPt})
    ELSE
    LET currentUndoGroup == getCurrentUndoGroup(d)
        d1 == incrementUndoGroup(d)
        groupWasIncremented == currentUndoGroup # getCurrentUndoGroup(d1)
    IN  IF SchemaPt \in plan THEN Thrown(d1, FALSE, {OpenPt, SchemaPt})
        ELSE
        LET L == UpdateLoop(d1, items, 1, plan, <<>>, FALSE)
            h1 == {OpenPt, SchemaPt} \cup WritesHit(Len(items), plan)
        IN  IF L.threw THEN Thrown(L.d, L.act, h1)
            ELSE IF L.ids # <<>> /\ RefetchPt \in plan
                 THEN Thrown(L.d, L.act, h1 \cup {RefetchPt})
            ELSE MergeStep(L.d, use, groupWasIncremented, L.act, plan,
                           Ok(Refetch(L.d, L.ids)),
                           h1 \cup (IF L.ids # <<>> THEN {RefetchPt} ELSE {}))

\* mutant: the not-found result is produced inside the try block
updateItems_ValidatesInTry(d, items, useNextUndoGroup, plan) ==
    LET use == WithDefault(useNextUndoGroup, TRUE)
        ids == SetOrder([k \in DOMAIN items |-> items[k].id], {})
        notFoundIds == NotFoundIds(d, ids, 1, plan)
    IN IF notFoundIds # <<>>
       THEN LET F == Finalize(incrementUndoGroup(d), use, {})
            IN [d |-> F.d, out |-> Fail(<<>>, <<"notFound", notFoundIds>>),
                hit |-> PreHit(ids)]
       ELSE LET T == UpdateTry(d, items, use, plan)
                R == TryCatchFinally(T, use, plan, T.act)
            IN [R EXCEPT !.hit = @ \cup PreHit(ids)]

\* updateItems: pre-validation, then the try/catch/finally statement
updateItems(d, items, useNextUndoGroup, plan) ==
    LET use == WithDefault(useNextUndoGroup, TRUE)
        ids == SetOrder([k \in DOMAIN items |-> items[k].id], {})
        notFoundIds == NotFoundIds(d, ids, 1, plan)
    IN IF notFoundIds # <<>>
       THEN [d |-> d, out |-> Fail(<<>>, <<"notFound", notFoundIds>>), hit |-> PreHit(ids)]
       ELSE LET T == UpdateTry(d, items, use, plan)
                R == TryCatchFinally(T, use, plan, T.act)
            IN [R EXCEPT !.hit = @ \cup PreHit(ids)]

\* ---- deleteItems
RECURSIVE ItemsMap(_, _)
ItemsMap(d, ids) ==
    IF ids = <<>> THEN <<>>
    ELSE <<getItem(d, ids[1], FALSE).data>> \o ItemsMap(d, SubSeq(ids, 2, Len(ids)))

\* mutant: the returned row is read after its DELETE instead of before
RECURSIVE DeleteLoop_SnapshotAfter(_, _, _, _, _, _, _)
DeleteLoop_SnapshotAfter(d, ids, itemsMap, k, plan, deletedObjects, act) ==
    IF k > Len(ids)
    THEN [d |-> d, threw |-> FALSE, deletedObjects |-> deletedObjects, act |-> act]
    ELSE IF itemsMap[k] = NoRow \/ WritePt(k) \in plan
    THEN [d |-> d, threw |-> TRUE, deletedObjects |-> deletedObjects, act |-> act]
    ELSE LET id == ids[k]
             d1 == IF id \in DOMAIN d.rows
                   THEN createUndoTriggers(
                            [d EXCEPT !.rows = [i \in DOMAIN d.rows \ {id} |-> d.rows[i]]],
                            "del", id, d.rows[id])
                   ELSE d
         IN DeleteLoop_SnapshotAfter(d1, ids, itemsMap, k + 1, plan,
                       Append(deletedObjects, getItem(d1, id, FALSE).data), TRUE)

RECURSIVE DeleteLoop(_, _, _, _, _, _, _)
DeleteLoop(d, ids, itemsMap, k, plan, deletedObjects, act) ==
    IF k > Len(ids)
    THEN [d |-> d, threw |-> FALSE, deletedObjects |-> deletedObjects, act |-> act]
    ELSE IF itemsMap[k] = NoRow \/ WritePt(k) \in plan
    THEN [d |-> d, threw |-> TRUE, deletedObjects |-> deletedObjects, act |-> act]
    ELSE LET id == ids[k]
             d1 == IF id \in DOMAIN d.rows
                   THEN createUndoTriggers(
                            [d EXCEPT !.rows = [i \in DOMAIN d.rows \ {id} |-> d.rows[i]]],
                            "del", id, d.rows[id])
                   ELSE d
         IN DeleteLoop(d1, ids, itemsMap, k + 1, plan,
                       Append(deletedObjects, itemsMap[k]), TRUE)

DeleteTry(d, ids, use, plan) ==
    IF OpenPt \in plan THEN Thrown(d, FALSE, {OpenPt})
    ELSE
    LET currentUndoGroup == getCurrentUndoGroup(d)
        d1 == incrementUndoGroup(d)
        groupWasIncremented == currentUndoGroup # getCurrentUndoGroup(d1)
        d2 == incrementUndoGroup(d1)
        L == DeleteLoop(d2, ids, ItemsMap(d, ids), 1, plan, <<>>, FALSE)
        h1 == {OpenPt} \cup WritesHit(Len(ids), plan)
    IN  IF L.threw THEN Thrown(L.d, L.act, h1)
        ELSE MergeStep(L.d, use, groupWasIncremented, L.act, plan,
                       Ok(L.deletedObjects), h1)

\* (useNextUndoGroup has no default here)
deleteItems(d, ids, useNextUndoGroup, plan) ==
    LET use == useNextUndoGroup
        notFoundIds == NotFoundIds(d, ids, 1, plan)
    IN IF notFoundIds # <<>>
       THEN [d |-> d, out |-> Fail(<<>>, <<"notFound", notFoundIds>>), hit |-> PreHit(ids)]
       ELSE LET T == DeleteTry(d, ids, use, plan)
                R == TryCatchFinally(T, use, plan, T.act)
            IN [R EXCEPT !.hit = @ \cup PreHit(ids)]


\* ------------------------------------------------------------ the state
\* (last.hit: the store statements the call reached)
VARIABLES rows,      \* the application table: row id -> columns
          hist,      \* the undo history log, oldest record first
          redo,      \* the redo log
          curGroup,  \* the current undo group
          issued,    \* the largest group value incrementUndoGroup returned
          handed,    \* the largest row id a createMany call returned (0: none)
          now,       \* the wall clock
          cols,      \* the columns of the application table
          inflight,  \* calls whose steps are run one by one (SpecInterleaved)
          ncalls,    \* mutation calls made so far
          last       \* the call whose result the caller is reading, if any:
                     \* operation, arguments, store before the call, result

vars == <<rows, hist, redo, curGroup, issued, handed, now, cols, inflight, ncalls, last>>

\* the store as one call sees it (call/use tag the records the call writes)
Db(use) == [rows |-> rows, hist |-> hist, redo |-> redo, cur |-> curGroup,
            issued |-> issued, handed |-> handed, now |-> now, cols |-> cols,
            ticks |-> {}, call |-> ncalls + 1, use |-> use]

\* fault plans: at most one fault in the body of the call, one in its
\* roll back and one in its finalizer
BodyPts == {PrePt, OpenPt, SchemaPt, RefetchPt, MergePt} \cup WritePts(MaxItems)
Plans == {b \cup c \cup f : b \in {{}} \cup {{x} : x \in BodyPts},
                            c \in {{}, {UndoPt}, {ClearPt}},
                            f \in {{}, {FinalPt}}}
\* statements a call of this shape cannot reach need not be tried
Reachable(op, n, use, plan) ==
    /\ plan \cap WritePts(MaxItems) \subseteq WritePts(n)
    /\ FinalPt \in plan => Truthy(use)
    /\ MergePt \in plan => ~Truthy(use) /\ n > 0
    /\ RefetchPt \in plan => n > 0 /\ op # "delete"
    /\ SchemaPt \in plan => op # "delete"
    /\ PrePt \in plan => n > 0 /\ op # "create"
    /\ plan \cap {UndoPt, ClearPt} # {} => plan \cap (BodyPts \ {PrePt}) # {}

UseArgs == {Undefined, Some(TRUE), Some(FALSE)}
SeqsUpTo(S, n) == UNION {[1..k -> S] : k \in 0..n}
NewItems == SeqsUpTo([name : Names], MaxItems)
ModifiedItems == SeqsUpTo([id : Ids \cup {NoId}, name : Names], MaxItems)
IdLists == {s \in SeqsUpTo(Ids, MaxItems) : \A i, j \in DOMAIN s : i # j => s[i] # s[j]}

\* no call is being run step by step
NoCalls == [exclusive |-> TRUE, c |-> <<>>]

Call(op, args, use, plan, pre, out) ==
    [op |-> op, args |-> args, use |-> use, plan |-> plan, pre |-> pre, out |-> out,
     hit |-> {}]
Idle == Call("none", <<>>, Undefined, {}, <<>>, Ok(<<>>))

Init ==
    /\ rows = <<>>
    /\ hist = <<>>
    /\ redo = <<>>
    /\ curGroup = StartGroup
    /\ issued = StartGroup
    /\ handed = 0
    /\ now = 0
    /\ cols = ShapeColumns
    /\ inflight = NoCalls
    /\ ncalls = 0
    /\ last = Idle

\* a mutation call ends: the store and the result handed to the caller
CommitFrom(op, args, use, plan, d, R) ==
    /\ plan \subseteq R.hit
    /\ rows' = R.d.rows
    /\ hist' = R.d.hist
    /\ redo' = R.d.redo
    /\ curGroup' = R.d.cur
    /\ issued' = R.d.issued
    /\ handed' = IF op = "create" /\ R.out.kind = "return" /\ R.out.success
                  THEN Max({handed} \cup {R.out.data[k].id : k \in DOMAIN R.out.data})
                  ELSE handed
    /\ now' = R.d.now
    /\ UNCHANGED <<cols, inflight>>
    /\ ncalls' = ncalls + 1
    /\ last' = [Call(op, args, use, plan, d, R.out) EXCEPT !.hit = R.hit]

Commit(op, args, use, plan, R) == CommitFrom(op, args, use, plan, Db(use), R)

CreateMany ==
    /\ last.op = "none"
    /\ ncalls < MaxCalls
    /\ \E items \in NewItems, u \in UseArgs, plan \in Plans :
        /\ lastInsertRowid(rows) + Len(items) - 1 <= MaxId
        /\ Reachable("create", Len(items), WithDefault(u, TRUE), plan)
        /\ LET use == WithDefault(u, TRUE)
           IN Commit("create", items, use, plan, createItems(Db(use), items, u, plan))

UpdateMany ==
    /\ last.op = "none"
    /\ ncalls < MaxCalls
    /\ \E items \in ModifiedItems, u \in UseArgs, plan \in Plans :
        /\ Reachable("update", Len(items), WithDefault(u, TRUE), plan)
        /\ LET use == WithDefault(u, TRUE)
           IN Commit("update", items, use, plan, updateItems(Db(use), items, u, plan))

DeleteMany ==
    /\ last.op = "none"
    /\ ncalls < MaxCalls
    /\ \E ids \in IdLists, u \in UseArgs, plan \in Plans :
        /\ Reachable("delete", Len(ids), u, plan)
        /\ Commit("delete", ids, u, plan, deleteItems(Db(u), ids, u, plan))

\* mutant: a read opens an undo group
Select_OpensGroup(d) == incrementUndoGroup(d)

\* the store after the one statement of a read, a SELECT
Select(d) == d

\* the store after a read operation
Read(d) ==
    /\ rows' = d.rows
    /\ hist' = d.hist
    /\ redo' = d.redo
    /\ curGroup' = d.cur
    /\ issued' = d.issued
    /\ UNCHANGED <<handed, now, cols, inflight, ncalls>>

\* the read operations
GetOne ==
    /\ last.op = "none"
    /\ \E id \in Ids, faulty \in BOOLEAN :
        /\ last' = Call("getOne", id, Undefined, IF faulty THEN {QueryPt} ELSE {},
                        Db(Undefined), getItem(Db(Undefined), id, faulty))
        /\ Read(Select(Db(Undefined)))

GetAll ==
    /\ last.op = "none"
    /\ \E faulty \in BOOLEAN :
        /\ last' = Call("getAll", <<>>, Undefined, IF faulty THEN {QueryPt} ELSE {},
                        Db(Undefined), getAllItems(Db(Undefined), faulty))
        /\ Read(Select(Db(Undefined)))

\* the user's undo
Undo ==
    /\ last.op = "none"
    /\ hist # <<>>
    /\ LET d == performUndo(Db(Undefined))
       IN /\ rows' = d.rows
          /\ hist' = d.hist
          /\ redo' = d.redo
    /\ UNCHANGED <<curGroup, issued, handed, now, cols, inflight, ncalls, last>>

\* the synchronous caller takes the result; the next call can start
Return ==
    /\ last.op # "none"
    /\ last' = Idle
    /\ UNCHANGED <<rows, hist, redo, curGroup, issued, handed, now, cols, inflight, ncalls>>

Next == CreateMany \/ UpdateMany \/ DeleteMany \/ GetOne \/ GetAll \/ Undo \/ Return

Spec == Init /\ [][Next]_vars


\* ------------------------------ decrementLastUndoGroup on a given history
\* history logs as the triggers leave them: group tags never decrease along
\* the log; the first tag can be the starting value
LogRecord(g) == [kind |-> "upd", id |-> 1, prior |-> [name |-> "a"],
                 group |-> g, call |-> 0, use |-> Undefined]
Logs == {[i \in DOMAIN s |-> LogRecord(s[i])] :
            s \in {t \in SeqsUpTo(StartGroup..MaxGroup, MaxLog) :
                      \A i, j \in DOMAIN t : i < j => t[i] <= t[j]}}

InitMerge ==
    /\ hist \in Logs
    /\ rows = <<>>
    /\ redo = <<>>
    /\ curGroup = Max(GroupsOf(hist) \cup {StartGroup})
    /\ issued = curGroup
    /\ handed = 0
    /\ now = 0
    /\ cols = ShapeColumns
    /\ inflight = NoCalls
    /\ ncalls = 0
    /\ last = Idle

\* one call of the merge; args keeps the log the first call was given
MergeLast ==
    /\ ncalls < MaxCalls
    /\ hist' = decrementLastUndoGroup(Db(Undefined)).hist
    /\ ncalls' = ncalls + 1
    /\ last' = Call("merge", IF last.op = "merge" THEN last.args ELSE hist,
                    Undefined, {}, Db(Undefined), Ok(<<>>))
    /\ UNCHANGED <<rows, redo, curGroup, issued, handed, now, cols, inflight>>

NextMerge == MergeLast

SpecMerge == InitMerge /\ [][NextMerge]_vars

\* --------------------------------- empty batches on a given undo history
\* row 1 as a sequence of updates left it, with the log of those updates
ShapeRow(name) == [c \in ShapeColumns \ {"id"} |->
                      IF c = "name" THEN name
                      ELSE IF c = "notes" THEN Null ELSE 0]
RowLogs == {[i \in DOMAIN l |-> [l[i] EXCEPT !.prior = ShapeRow("a")]] : l \in Logs}

InitEmptyBatch ==
    /\ hist \in RowLogs
    /\ rows = (1 :> ShapeRow("b"))
    /\ redo = <<>>
    /\ curGroup = Max(GroupsOf(hist) \cup {StartGroup})
    /\ issued = curGroup
    /\ handed = 1
    /\ now = 0
    /\ cols = ShapeColumns
    /\ inflight = NoCalls
    /\ ncalls = 0
    /\ last = Idle

CreateNone ==
    /\ last.op = "none"
    /\ ncalls < MaxCalls
    /\ \E u \in UseArgs, plan \in Plans :
        /\ Reachable("create", 0, WithDefault(u, TRUE), plan)
        /\ LET use == WithDefault(u, TRUE)
           IN Commit("create", <<>>, use, plan, createItems(Db(use), <<>>, u, plan))

UpdateNone ==
    /\ last.op = "none"
    /\ ncalls < MaxCalls
    /\ \E u \in UseArgs, plan \in Plans :
        /\ Reachable("update", 0, WithDefault(u, TRUE), plan)
        /\ LET use == WithDefault(u, TRUE)
           IN Commit("update", <<>>, use, plan, updateItems(Db(use), <<>>, u, plan))

DeleteNone ==
    /\ last.op = "none"
    /\ ncalls < MaxCalls
    /\ \E u \in UseArgs, plan \in Plans :
        /\ Reachable("delete", 0, u, plan)
        /\ Commit("delete", <<>>, u, plan, deleteItems(Db(u), <<>>, u, plan))

NextEmptyBatch == CreateNone \/ UpdateNone \/ DeleteNone \/ Return

SpecEmptyBatch == InitEmptyBatch /\ [][NextEmptyBatch]_vars

\* ------------------- the data path: clock, optional columns, supplied ids
\* create items as callers pass them: with or without an id of their own
NewItemsWithId == SeqsUpTo([name : Names] \cup [id : Ids, name : Names], MaxItems)
\* update items naming rows (pre-validation rejects the others); an item
\* gives a new name or new notes
Notes == {"n"}
ModifiedItemsOf(S) == SeqsUpTo([id : S, name : Names] \cup [id : S, notes : Notes],
                               MaxItems)
\* the store as a call sees it when the clock advances before the writes in ticks
DbAt(use, ticks) == [Db(use) EXCEPT !.ticks = ticks]

InitData ==
    /\ rows = <<>>
    /\ hist = <<>>
    /\ redo = <<>>
    /\ curGroup = StartGroup
    /\ issued = StartGroup
    /\ handed = 0
    /\ now = 0
    /\ cols \in ColumnSets
    /\ inflight = NoCalls
    /\ ncalls = 0
    /\ last = Idle

CreateData ==
    /\ last.op = "none"
    /\ ncalls < MaxCalls
    /\ \E items \in NewItemsWithId, ticks \in SUBSET (1..MaxItems) :
        /\ lastInsertRowid(rows) + Len(items) - 1 <= MaxId
        /\ ticks \subseteq DOMAIN items
        /\ now + Cardinality(ticks) <= MaxClock
        /\ LET d == DbAt(Some(TRUE), ticks)
           IN CommitFrom("create", items, Some(TRUE), {}, d,
                         createItems(d, items, Undefined, {}))

UpdateData ==
    /\ last.op = "none"
    /\ ncalls < MaxCalls
    /\ \E items \in ModifiedItemsOf(DOMAIN rows), ticks \in SUBSET (1..MaxItems) :
        /\ ticks \subseteq DOMAIN items
        /\ now + Cardinality(ticks) <= MaxClock
        /\ LET d == DbAt(Some(TRUE), ticks)
           IN CommitFrom("update", items, Some(TRUE), {}, d,
                         updateItems(d, items, Undefined, {}))

\* a schema change between two calls: a timestamp column is added (existing
\* rows hold NULL in it) or dropped
AlterTable ==
    /\ last.op = "none"
    /\ \E c \in ColumnSets \ {cols} :
        /\ cols' = c
        /\ rows' = [i \in DOMAIN rows |->
                       [x \in c \ {"id"} |->
                           IF x \in DOMAIN rows[i] THEN rows[i][x] ELSE Null]]
    /\ UNCHANGED <<hist, redo, curGroup, issued, handed, now, inflight, ncalls, last>>

NextData == CreateData \/ UpdateData \/ AlterTable \/ Return

SpecData == InitData /\ [][NextData]_vars

\* ------------------------- createItems run step by step by two callers
\* Each caller makes one createItems call; its steps are those of the
\* function: open the group, one INSERT per item, merge, roll back,
\* finalizer. With exclusive dispatch a call starts only when no other call
\* is under way; without it the steps of the two calls interleave.
Callers == 1..2
InCall(p) == inflight.c[p].pc \notin {"idle", "done"}
\* the store as caller p sees it
DbOf(p) == [Db(inflight.c[p].use) EXCEPT !.call = p]

\* the store after a step of a call
Store(d) ==
    /\ rows' = d.rows
    /\ hist' = d.hist
    /\ redo' = d.redo
    /\ curGroup' = d.cur
    /\ issued' = d.issued
    /\ UNCHANGED <<handed, now, cols, ncalls, last>>

InitInterleaved ==
    /\ rows = <<>>
    /\ hist = <<>>
    /\ redo = <<>>
    /\ curGroup = StartGroup
    /\ issued = StartGroup
    /\ handed = 0
    /\ now = 0
    /\ cols = ShapeColumns
    /\ ncalls = 0
    /\ last = Idle
    /\ \E x \in BOOLEAN :
           inflight = [exclusive |-> x,
                       c |-> [p \in Callers |->
                                 [pc |-> "idle", n |-> 0, k |-> 0, fault |-> 0,
                                  use |-> Some(TRUE), opened |-> StartGroup,
                                  groupWasIncremented |-> FALSE]]]

\* mutant: the call takes the group of the last history record as its own
IlvOpen_ReusesLastGroup(p, n, fault, use) ==
    LET d == [DbOf(p) EXCEPT !.cur = Max(GroupsOf(hist) \cup {StartGroup})]
    IN /\ Store(d)
       /\ inflight' = [inflight EXCEPT !.c[p] =
              [pc |-> "write", n |-> n, k |-> 1, fault |-> fault, use |-> use,
               opened |-> d.cur, groupWasIncremented |-> TRUE]]

\* lines 210-212: read the group, advance it
IlvOpen(p, n, fault, use) ==
    LET currentUndoGroup == getCurrentUndoGroup(DbOf(p))
        d == incrementUndoGroup(DbOf(p))
    IN /\ Store(d)
       /\ inflight' = [inflight EXCEPT !.c[p] =
              [pc |-> "write", n |-> n, k |-> 1, fault |-> fault, use |-> use,
               opened |-> d.cur,
               groupWasIncremented |-> currentUndoGroup # getCurrentUndoGroup(d)]]

IlvStart ==
    \E p \in Callers :
        /\ inflight.c[p].pc = "idle"
        /\ inflight.exclusive => \A q \in Callers : ~InCall(q)
        /\ \E n \in 1..MaxItems, fault \in 0..MaxItems, use \in {Some(TRUE), Some(FALSE)} :
            /\ fault <= n
            /\ Cardinality(DOMAIN rows) + n
                 + (IF \E q \in Callers : InCall(q)
                    THEN LET q == CHOOSE q \in Callers : InCall(q)
                         IN inflight.c[q].n - inflight.c[q].k + 1
                    ELSE 0) <= MaxId
            /\ IlvOpen(p, n, fault, use)

\* lines 217-238: one INSERT of the loop, or the fault that ends it
IlvWrite ==
    \E p \in Callers :
        LET c == inflight.c[p]
        IN /\ c.pc = "write"
           /\ IF c.k > c.n
              THEN /\ inflight' = [inflight EXCEPT !.c[p].pc = "merge"]
                   /\ UNCHANGED <<rows, hist, redo, curGroup, issued, handed, now,
                                  cols, ncalls, last>>
              ELSE IF c.fault = c.k
              THEN /\ inflight' = [inflight EXCEPT !.c[p].pc = "catch"]
                   /\ UNCHANGED <<rows, hist, redo, curGroup, issued, handed, now,
                                  cols, ncalls, last>>
              ELSE /\ Store(InsertRow(DbOf(p), NewItem(DbOf(p), [name |-> "a"])))
                   /\ inflight' = [inflight EXCEPT !.c[p].k = @ + 1]

\* lines 259-261: fold the call into the previous step
IlvMerge ==
    \E p \in Callers :
        LET c == inflight.c[p]
        IN /\ c.pc = "merge"
           /\ Store(MergeStep(DbOf(p), c.use, c.groupWasIncremented, TRUE, {},
                              Ok(<<>>), {}).d)
           /\ inflight' = [inflight EXCEPT !.c[p].pc = "final"]

\* lines 262-275: the roll back
IlvCatch ==
    \E p \in Callers :
        /\ inflight.c[p].pc = "catch"
        /\ Store(Compensate(DbOf(p), {}, TRUE).d)
        /\ inflight' = [inflight EXCEPT !.c[p].pc = "final"]

\* lines 276-279: the finalizer
IlvFinal ==
    \E p \in Callers :
        /\ inflight.c[p].pc = "final"
        /\ Store(Finalize(DbOf(p), inflight.c[p].use, {}).d)
        /\ inflight' = [inflight EXCEPT !.c[p].pc = "done"]

NextInterleaved == IlvStart \/ IlvWrite \/ IlvMerge \/ IlvCatch \/ IlvFinal

SpecInterleaved == InitInterleaved /\ [][NextInterleaved]_vars

\* ------------------------------------------------- reading the last call
IsMutation == last.op \in {"create", "update", "delete"}
Returned == last.out.kind = "return"
Failed == Returned /\ ~last.out.success
Succeeded == Returned /\ last.out.success
\* the number of rows in the batch of the last call
BatchLen == Len(last.args)
\* the row ids an update or delete call names
Targets == IF last.op = "update" THEN {last.args[k].id : k \in DOMAIN last.args}
           ELSE IF last.op = "delete" THEN {last.args[k] : k \in DOMAIN last.args}
           ELSE {}
PreValidated == Targets \subseteq DOMAIN last.pre.rows
\* the store right after the last call
Post == [rows |-> rows, hist |-> hist, redo |-> redo, cur |-> curGroup,
         issued |-> issued, handed |-> handed, now |-> now, cols |-> cols,
         ticks |-> {}, call |-> ncalls, use |-> last.use]
RecordsOf(log, c) == {i \in DOMAIN log : log[i].call = c}
GroupTags(log) == [i \in DOMAIN log |-> log[i].group]

\* the writes a redo issued now would re-apply: the most recent redo slot
RedoWrites(d) ==
    IF d.redo = <<>> THEN {}
    ELSE {d.redo[i] : i \in {j \in DOMAIN d.redo :
                                d.redo[j].group = Max(GroupsOf(d.redo))}}

\* ---------------------------------------------------------------- claims

\* C1: a createMany call that returns success=false because of a store
\* fault in its apply phase (schema lookup or a row insert, the first row
\* included) leaves the application table as it was before the call.
C1_FailedCreateRestoresTable ==
    (/\ last.op = "create"
     /\ Failed
     /\ last.plan \cap ({SchemaPt} \cup WritePts(MaxItems)) # {})
    => rows = last.pre.rows

\* C2: when the insert of row k >= 2 of an n-row createMany faults after
\* rows 1..k-1 were inserted, the call returns success=false, none of the
\* n rows is in the table and every earlier row is present and unchanged,
\* whatever useNextUndoGroup is.
C2_PartialCreateCompensated ==
    (/\ last.op = "create"
     /\ \E k \in 2..BatchLen : last.plan = {WritePt(k)})
    => /\ Failed
       /\ last.out.data = <<>>
       /\ rows = last.pre.rows

C2_Witness ==
    /\ last.op = "create"
    /\ last.plan = {WritePt(2)}
    /\ last.pre.rows # <<>>
    /\ Failed
    /\ rows = last.pre.rows

\* C3: updateMany and deleteMany with a target id that is not in the table
\* return success=false with empty data and write nothing: the rows, the
\* history log and the undo group are those of before the call.
C3_AbsentIdNoWrite ==
    (/\ last.op \in {"update", "delete"}
     /\ ~PreValidated)
    => /\ Failed
       /\ last.out.data = <<>>
       /\ rows = last.pre.rows
       /\ hist = last.pre.hist
       /\ curGroup = last.pre.cur

C3_Witness ==
    /\ last.op \in {"update", "delete"}
    /\ Targets \cap DOMAIN last.pre.rows # {}
    /\ Targets \ DOMAIN last.pre.rows # {}
    /\ Failed
    /\ last.plan = {}

\* C4: deleteMany called without useNextUndoGroup behaves as deleteMany
\* called with useNextUndoGroup = true: same rows, same grouping of the
\* history records, same undo group after the call, same result.
C4_DeleteDefaultsToTrue ==
    (last.op = "delete" /\ last.use = Undefined)
    => LET R == deleteItems(last.pre, last.args, Some(TRUE), last.plan)
       IN /\ rows = R.d.rows
          /\ GroupTags(hist) = GroupTags(R.d.hist)
          /\ curGroup = R.d.cur
          /\ last.out = R.out

\* C5: after two sequential mutation calls that each wrote a row, the
\* second a successful call with useNextUndoGroup = false, the records of
\* the second call carry the group of the records of the first, and one
\* undo removes the records of both.
C5_GroupFolding ==
    (/\ IsMutation
     /\ Succeeded
     /\ last.use = Some(FALSE)
     /\ RecordsOf(hist, ncalls) # {}
     /\ RecordsOf(last.pre.hist, ncalls - 1) # {})
    => /\ \A i \in RecordsOf(hist, ncalls), j \in RecordsOf(hist, ncalls - 1) :
              hist[i].group = hist[j].group
       /\ RecordsOf(hist, ncalls - 1) = RecordsOf(last.pre.hist, ncalls - 1)
       /\ LET U == performUndo(Post)
          IN RecordsOf(U.hist, ncalls) \cup RecordsOf(U.hist, ncalls - 1) = {}

C5_Witness ==
    /\ IsMutation
    /\ Succeeded
    /\ last.use = Some(FALSE)
    /\ RecordsOf(hist, ncalls) # {}
    /\ RecordsOf(hist, ncalls - 1) # {}
    /\ \A i \in RecordsOf(hist, ncalls), j \in RecordsOf(hist, ncalls - 1) :
           hist[i].group = hist[j].group

\* C6: records written by a call made with useNextUndoGroup = true share
\* their undo group with records of another call only when that other call
\* is a later one made with useNextUndoGroup = false.
C6_GroupsNotSharedUnlessFolded ==
    \A i, j \in DOMAIN hist :
        (/\ hist[i].call < hist[j].call
         /\ hist[i].group = hist[j].group
         /\ Some(TRUE) \in {hist[i].use, hist[j].use})
        => hist[j].use = Some(FALSE)

\* C7: the history records of one mutation call all carry one undo group,
\* the group the call opened; a single undo right after a successful call
\* made with useNextUndoGroup = true reverts the rows that call wrote and
\* nothing else.
C7_OneGroupPerCall ==
    /\ \A i, j \in DOMAIN hist :
           hist[i].call = hist[j].call => hist[i].group = hist[j].group
    /\ (IsMutation /\ Succeeded /\ last.use = Some(TRUE))
       => /\ \A i \in RecordsOf(hist, ncalls) :
                 /\ hist[i].group > last.pre.cur
                 /\ hist[i].group < curGroup
          /\ RecordsOf(hist, ncalls) # {}
             => LET U == performUndo(Post)
                IN U.rows = last.pre.rows /\ U.hist = last.pre.hist

C7_Witness ==
    /\ IsMutation
    /\ Succeeded
    /\ last.use = Some(TRUE)
    /\ Cardinality(RecordsOf(hist, ncalls)) >= 2
    /\ last.pre.hist # <<>>
    /\ performUndo(Post).rows = last.pre.rows

\* C8: when the k-th row write of a pre-validated updateMany or deleteMany
\* faults (k from 1 to n), the call returns success=false and the table
\* and the history log are those of before the call, whatever
\* useNextUndoGroup is.
C8_PartialWriteCompensated ==
    (/\ last.op \in {"update", "delete"}
     /\ PreValidated
     /\ \E k \in 1..BatchLen : last.plan = {WritePt(k)})
    => /\ Failed
       /\ last.out.data = <<>>
       /\ rows = last.pre.rows
       /\ hist = last.pre.hist

C8_Witness ==
    /\ last.op \in {"update", "delete"}
    /\ PreValidated
    /\ last.plan = {WritePt(2)}
    /\ last.pre.hist # <<>>
    /\ Failed
    /\ rows = last.pre.rows

\* C9: no call of getOne, getAll, createMany, updateMany or deleteMany ends
\* with a raw exception: whichever store statement faults, the call returns
\* a structured result.
C9_NoRawException ==
    last.op # "none" => Returned

\* C10: in every result returned, success = true implies no error, and
\* success = false implies an error and the neutral data of the operation:
\* absent for getOne, the empty list for the list-returning operations.
C10_ResultShape ==
    (last.op # "none" /\ Returned)
    => /\ last.out.success => last.out.error = <<>>
       /\ ~last.out.success
          => /\ last.out.error # <<>>
             /\ last.out.data = (IF last.op = "getOne" THEN NoRow ELSE <<>>)

C10_Witness ==
    /\ last.op = "update"
    /\ BatchLen = 2
    /\ last.plan = {RefetchPt}
    /\ Failed
    /\ last.out.data = <<>>
    /\ last.out.error # <<>>

\* the ids a failed pre-validation names in its error
NamedIds == {last.out.error[2][k] : k \in DOMAIN last.out.error[2]}
PreValidationFailed ==
    /\ last.op \in {"update", "delete"}
    /\ Failed
    /\ Len(last.out.error) = 2

\* C11: when the pre-validation of updateMany or deleteMany fails, the ids
\* named in the error are exactly the ids of the batch that are absent from
\* the table: every absent id is listed, no present id is listed.
C11_ExhaustivePreValidation ==
    PreValidationFailed => NamedIds = Targets \ DOMAIN last.pre.rows

\* C12: when the log holds a group strictly smaller than its maximum group
\* (the starting value included), the merge re-tags every record of the
\* maximum group with the largest strictly smaller group and leaves every
\* other record as it was.
C12_MergeRetagsLastGroup ==
    (/\ last.op = "merge"
     /\ \E g \in GroupsOf(last.pre.hist) : g < Max(GroupsOf(last.pre.hist)))
    => LET m == Max(GroupsOf(last.pre.hist))
           p == Max({g \in GroupsOf(last.pre.hist) : g < m})
       IN /\ DOMAIN hist = DOMAIN last.pre.hist
          /\ \A i \in DOMAIN hist :
                 hist[i] = IF last.pre.hist[i].group = m
                           THEN [last.pre.hist[i] EXCEPT !.group = p]
                           ELSE last.pre.hist[i]

\* C13: on an empty log or a log whose records all carry one group the
\* merge changes nothing, however many times it is called.
C13_MergeNoOpWithoutPrevious ==
    (/\ last.op = "merge"
     /\ Cardinality(GroupsOf(last.args)) <= 1)
    => hist = last.args

C13_Witness ==
    /\ last.op = "merge"
    /\ ncalls = 2
    /\ Len(last.args) >= 2
    /\ GroupsOf(last.args) = {MaxGroup - 1}
    /\ hist = last.args

\* C14: a createMany that meets no store fault succeeds; it returns one row
\* per item, in order, with the columns the caller gave and a fresh id, and
\* getOne on each returned id yields the row createMany returned.
C14_CreateRoundTrip ==
    (last.op = "create" /\ last.plan = {})
    => /\ Succeeded
       /\ Len(last.out.data) = BatchLen
       /\ \A k \in 1..BatchLen :
              LET r == last.out.data[k]
              IN /\ DOMAIN r = cols
                 /\ \A c \in DOMAIN last.args[k] \ {"id"} : r[c] = last.args[k][c]
                 /\ \A c \in DOMAIN r \ (DOMAIN last.args[k]
                                          \cup {"id", "created_at", "updated_at"}) :
                        r[c] = Null
                 /\ r.id \notin DOMAIN last.pre.rows
                 /\ getItem(Post, r.id, FALSE) = Ok(r)
       /\ \A j, k \in 1..BatchLen :
              j # k => last.out.data[j].id # last.out.data[k].id

C14_Witness ==
    /\ last.op = "create"
    /\ last.plan = {}
    /\ BatchLen = 2
    /\ last.pre.rows # <<>>
    /\ Succeeded
    /\ last.args[1].name # last.args[2].name
    /\ getItem(Post, last.out.data[2].id, FALSE).data.name = last.args[2].name

\* the positions of an update batch whose item lacks an id
WithoutId == {k \in DOMAIN last.args : last.args[k].id = NoId}

\* C15: an updateMany batch in which one item lacks an id and the others
\* name existing rows skips that item only: the call succeeds, the other
\* items are written and the result holds their updated rows.
C15_ValidationSkip ==
    (/\ last.op = "update"
     /\ last.plan = {}
     /\ Cardinality(WithoutId) = 1
     /\ Targets \ {NoId} # {}
     /\ Targets \ {NoId} \subseteq DOMAIN last.pre.rows)
    => /\ Succeeded
       /\ Len(last.out.data) = BatchLen - 1
       /\ \A k \in DOMAIN last.args \ WithoutId :
              /\ rows[last.args[k].id].name = last.args[k].name
              /\ \E j \in DOMAIN last.out.data :
                     /\ last.out.data[j].id = last.args[k].id
                     /\ last.out.data[j].name = last.args[k].name

\* C16: after a mutation call that returned success=false, the redo log
\* holds no record of a write of that call, and it holds no record that
\* was not in it before the call: a redo cannot re-apply a partial write
\* of the failed batch.
C16_NoRedoOfFailedBatch ==
    (IsMutation /\ Failed)
    => /\ \A i \in DOMAIN redo : redo[i].call # ncalls
       /\ \A i \in DOMAIN redo : \E j \in DOMAIN last.pre.redo :
              redo[i] = last.pre.redo[j]
       /\ \A w \in RedoWrites(Post) : w.call # ncalls

C16_Witness ==
    /\ IsMutation
    /\ Failed
    /\ \E k \in 2..BatchLen : last.plan = {WritePt(k)}
    /\ last.pre.redo # <<>>
    /\ redo = last.pre.redo
    /\ rows = last.pre.rows

C18_GetOne ==
    last.op = "getOne"
    => /\ Returned
       /\ QueryPt \notin last.plan
          => /\ last.out.success <=> last.args \in DOMAIN rows
             /\ last.out.success
                => /\ last.out.data = ("id" :> last.args) @@ rows[last.args]
                   /\ last.out.error = <<>>
             /\ ~last.out.success
                => /\ last.out.data = NoRow
                   /\ last.out.error = <<"notFound">>
       /\ QueryPt \in last.plan
          => /\ ~last.out.success
             /\ last.out.data = NoRow
             /\ last.out.error # <<>>

C18_Witness ==
    /\ last.op = "getOne"
    /\ last.plan = {}
    /\ rows # <<>>
    /\ last.args \notin DOMAIN rows
    /\ Failed
    /\ last.out.data = NoRow

\* C19: getAll returns success=true with all the rows of the table when the
\* query does not fault (the empty list for an empty table) and
\* success=false with the empty list when it faults; in both cases data is
\* a list, never absent.
C19_GetAll ==
    last.op = "getAll"
    => /\ Returned
       /\ QueryPt \notin last.plan
          => /\ last.out.success
             /\ last.out.error = <<>>
             /\ Len(last.out.data) = Cardinality(DOMAIN rows)
             /\ \A id \in DOMAIN rows : \E k \in DOMAIN last.out.data :
                    last.out.data[k] = ("id" :> id) @@ rows[id]
       /\ QueryPt \in last.plan
          => /\ ~last.out.success
             /\ last.out.data = <<>>
             /\ last.out.error # <<>>

C19_Witness ==
    /\ last.op = "getAll"
    /\ last.plan = {}
    /\ rows = <<>>
    /\ hist # <<>>
    /\ Succeeded
    /\ last.out.data = <<>>

\* C20: a successful deleteMany returns one entry per id of the set, the
\* row as it was right before the call; after the call getOne fails for
\* each of those ids and every other row is unchanged.
C20_DeleteReturnsSnapshot ==
    (last.op = "delete" /\ Succeeded)
    => /\ Len(last.out.data) = BatchLen
       /\ \A k \in 1..BatchLen :
              /\ last.args[k] \in DOMAIN last.pre.rows
              /\ last.out.data[k] = ("id" :> last.args[k]) @@ last.pre.rows[last.args[k]]
              /\ ~getItem(Post, last.args[k], FALSE).success
       /\ DOMAIN rows = DOMAIN last.pre.rows \ Targets
       /\ \A id \in DOMAIN rows : rows[id] = last.pre.rows[id]

C20_Witness ==
    /\ last.op = "delete"
    /\ Succeeded
    /\ BatchLen >= 1
    /\ rows # <<>>
    /\ last.out.data[1].id = last.args[1]
    /\ last.args[1] \notin DOMAIN rows

\* C21: the ids a createMany call returns are greater than every id any
\* earlier createMany call returned for the table, also after the row with
\* the highest id was deleted, undone or rolled back; within one call they
\* increase.
C21_IdsNeverReused ==
    (last.op = "create" /\ Succeeded)
    => /\ \A k \in DOMAIN last.out.data : last.out.data[k].id > last.pre.handed
       /\ \A j, k \in DOMAIN last.out.data :
              j < k => last.out.data[j].id < last.out.data[k].id

\* C22: on a table with a created_at column, the rows one successful
\* createMany returns carry pairwise distinct ids and one created_at value,
\* whatever the clock does between the inserts.
C22_BatchSharesCreatedAt ==
    (last.op = "create" /\ Succeeded /\ "created_at" \in cols)
    => \A j, k \in DOMAIN last.out.data :
           /\ j # k => last.out.data[j].id # last.out.data[k].id
           /\ last.out.data[j].created_at = last.out.data[k].created_at

\* two calls that each own their undo step have records in one group
Mixed ==
    \E i, j \in DOMAIN hist :
        /\ hist[i].call # hist[j].call
        /\ hist[i].group = hist[j].group
        /\ hist[i].use = Some(TRUE)
        /\ hist[j].use = Some(TRUE)

\* C23: when calls are mutually exclusive, every history record of a call
\* that owns its undo step carries the group that call opened and no group
\* holds records of two such calls; when the steps of two calls interleave,
\* a record of one call can carry the group the other call opened, and one
\* undo then reverts writes of both.
C23_SafeOnlyWhenSerialized ==
    inflight.exclusive
    => /\ ~Mixed
       /\ \A i \in DOMAIN hist :
              hist[i].use = Some(TRUE)
              => hist[i].group = inflight.c[hist[i].call].opened

C23_Witness ==
    /\ ~inflight.exclusive
    /\ Mixed
    /\ \E i \in DOMAIN hist, q \in Callers :
           /\ q # hist[i].call
           /\ hist[i].use = Some(TRUE)
           /\ hist[i].group = inflight.c[q].opened
           /\ hist[i].group # inflight.c[hist[i].call].opened
    /\ LET U == performUndo(Post)
       IN \A p \in Callers : RecordsOf(U.hist, p) # RecordsOf(hist, p)

\* C24: when the re-fetch of a just-written row finds nothing in createMany
\* or updateMany, the call returns success=false with empty data and an
\* error, never success=true with a shorter list of rows.
C24_RefetchFailureFailsCall ==
    (/\ last.op \in {"create", "update"}
     /\ last.plan = {RefetchPt})
    => /\ Failed
       /\ last.out.data = <<>>
       /\ last.out.error # <<>>

C24_Witness ==
    /\ last.op = "create"
    /\ last.plan = {RefetchPt}
    /\ BatchLen = 2
    /\ RefetchPt \in last.hit
    /\ Failed
    /\ last.out.data = <<>>

\* the call ran the roll back of its catch block
Compensated == UndoPt \in last.hit

C26_EmptyBatchDoesNotMerge ==
    (IsMutation /\ last.use = Some(FALSE) /\ BatchLen = 0)
    => /\ MergePt \notin last.hit
       /\ Len(hist) <= Len(last.pre.hist)
       /\ \A i \in DOMAIN hist : hist[i] = last.pre.hist[i]
       /\ last.plan = {} => hist = last.pre.hist

C26_Witness ==
    /\ IsMutation /\ last.use = Some(FALSE) /\ BatchLen = 0
    /\ last.plan = {} /\ Succeeded
    /\ \E g \in GroupsOf(last.pre.hist) :
           g # 0 /\ g < Max(GroupsOf(last.pre.hist))
    /\ GroupTags(hist) = GroupTags(last.pre.hist)

\* the finally block's group advance was called
Finalized == FinalPt \in last.hit

\* C27 as stated: every createMany, updateMany and deleteMany call made with
\* useNextUndoGroup = true ends with one more group advance, however the
\* call ends, a pre-validation failure included.
C27_AlwaysFinalized ==
    (IsMutation /\ last.use = Some(TRUE)) => Finalized

\* C27 amended: a call made with useNextUndoGroup = true that passes its
\* pre-validation ends with one more group advance, on success and on a
\* failure with or without roll back; unless that advance itself faults,
\* the group is then larger than the group before the call and than the
\* tag of every record in the log, those of the call's writes included. A
\* call that fails its pre-validation returns without a group advance.
C27_FinalizedAfterPreValidation ==
    (IsMutation /\ last.use = Some(TRUE))
    => /\ PreValidationFailed => ~Finalized /\ curGroup = last.pre.cur
       /\ ~PreValidationFailed
          => /\ Finalized
             /\ FinalPt \notin last.plan
                => /\ curGroup > last.pre.cur
                   /\ \A g \in GroupsOf(hist) : g < curGroup

C27_Witness ==
    /\ last.op = "update" /\ last.use = Some(TRUE)
    /\ last.plan = {WritePt(2)}
    /\ Compensated /\ Finalized /\ Failed
    /\ rows = last.pre.rows
    /\ curGroup = last.pre.cur + 2

\* the clock values the writes of the last call can have read
CallTimes == (last.pre.now + (IF 1 \in last.pre.ticks THEN 1 ELSE 0))..now
TimestampColumns == {"created_at", "updated_at"}

\* C28: on every table, with or without created_at and updated_at, a
\* createMany or updateMany that meets no store fault succeeds and returns
\* rows with exactly the table's columns as read in that call; createMany
\* puts a time of the call in each timestamp column the table has, and
\* updateMany puts a time of the call in updated_at when the table has it
\* and leaves created_at as it was.
C28_TimestampsByReflection ==
    (last.op \in {"create", "update"} /\ last.plan = {})
    => /\ Succeeded
       /\ cols = last.pre.cols
       /\ \A k \in DOMAIN last.out.data :
              LET r == last.out.data[k]
              IN /\ DOMAIN r = cols
                 /\ "updated_at" \in cols => r.updated_at \in CallTimes
                 /\ "created_at" \in cols
                    => r.created_at \in
                          (IF last.op = "create" THEN CallTimes
                           ELSE {last.pre.rows[r.id].created_at})

C28_Witness ==
    /\ last.op = "update" /\ Succeeded /\ BatchLen > 0
    /\ cols \cap TimestampColumns = {"updated_at"}
    /\ \E k \in DOMAIN last.out.data :
           LET r == last.out.data[k]
           IN r.updated_at = now /\ now > last.pre.now

\* the items of the last createMany that carry the id of a row of the table
Clashing == {k \in DOMAIN last.args :
                "id" \in DOMAIN last.args[k] /\ last.args[k].id \in DOMAIN last.pre.rows}

\* C29: a createMany that meets no store fault succeeds also when an item
\* carries the id of an existing row: the item is inserted as a new row
\* whose id is not the supplied one and not the id of any row that was
\* there, with the name the item gave, and every row that was there is
\* unchanged.
C29_SuppliedIdStripped ==
    (last.op = "create" /\ last.plan = {} /\ Clashing # {})
    => /\ Succeeded
       /\ Len(last.out.data) = BatchLen
       /\ \A k \in Clashing :
              LET r == last.out.data[k]
              IN /\ r.id # last.args[k].id
                 /\ r.id \notin DOMAIN last.pre.rows
                 /\ r.id \in DOMAIN rows
                 /\ r.name = last.args[k].name
       /\ \A i \in DOMAIN last.pre.rows :
              i \in DOMAIN rows /\ rows[i] = last.pre.rows[i]

C29_Witness ==
    /\ last.op = "create" /\ Succeeded
    /\ \E k \in Clashing :
           /\ last.out.data[k].id > last.args[k].id
           /\ last.out.data[k].name # last.pre.rows[last.args[k].id].name
           /\ rows[last.args[k].id] = last.pre.rows[last.args[k].id]

\* the group the writes of the last call were tagged with when written
Opened == last.pre.cur + (IF last.op = "delete" THEN 2 ELSE 1)
\* the call folded its group into the previous one
Folded == MergePt \in last.hit \ last.plan
\* the records that were in the log before the last call and are still there
OldRecords == SelectSeq(hist, LAMBDA r : r.call # ncalls)
\* the log before the last call without the group an undo replay consumed
Unconsumed(G) == SelectSeq(last.pre.hist, LAMBDA r : r.group \notin G)
Replayed == IF last.pre.hist = <<>> THEN {{}}
            ELSE {{}, {Max(GroupsOf(last.pre.hist))}}
\* the records of the last call are those its row statements made the
\* triggers write
FromTriggers ==
    /\ Cardinality(RecordsOf(hist, ncalls)) <= BatchLen
    /\ \A i \in RecordsOf(hist, ncalls) :
           /\ hist[i].kind = (IF last.op = "create" THEN "ins"
                              ELSE IF last.op = "update" THEN "upd" ELSE "del")
           /\ last.op # "create" => hist[i].id \in Targets
           /\ \A j \in DOMAIN hist : hist[j].call # ncalls => j < i

C31_PreValidationKeepsUndoState ==
    PreValidationFailed
    => /\ hist = last.pre.hist
       /\ redo = last.pre.redo
       /\ curGroup = last.pre.cur
       /\ issued = last.pre.issued
       /\ last.hit \subseteq {PrePt}

C31_Witness ==
    /\ PreValidationFailed
    /\ last.plan = {}
    /\ last.pre.redo # <<>>
    /\ redo = last.pre.redo
    /\ curGroup = last.pre.cur /\ curGroup > StartGroup

\* the last call failed on a store fault in one of its row writes
WritePhaseFailed ==
    /\ IsMutation /\ Failed
    /\ \E k \in 1..BatchLen : last.plan = {WritePt(k)}

\* C32: after a mutation call that failed in its write phase the history
\* log is the log of before the call: no record carries the group the call
\* opened, every earlier record is there with its group tag, and the next
\* undo reverts what it would have reverted before the call.
C32_FailedCallKeepsHistory ==
    WritePhaseFailed
    => /\ hist = last.pre.hist
       /\ RecordsOf(hist, ncalls) = {}
       /\ performUndo(Post).rows = performUndo(last.pre).rows

\* C33: after a mutation call that returned success=false every redo record
\* that was in the redo log before the call is still there, in its place,
\* also when the roll back found nothing to revert.
C33_EarlierRedoKept ==
    (IsMutation /\ Failed)
    => /\ Len(redo) >= Len(last.pre.redo)
       /\ \A j \in DOMAIN last.pre.redo : redo[j] = last.pre.redo[j]

\* C34: after a getOne or getAll call, whether it found rows, found none or
\* met a store fault, the table, the history log, the redo log and the
\* current undo group are those of before the call.
C34_ReadsChangeNothing ==
    last.op \in {"getOne", "getAll"}
    => /\ rows = last.pre.rows
       /\ hist = last.pre.hist
       /\ redo = last.pre.redo
       /\ curGroup = last.pre.cur

C34_Witness ==
    /\ last.op \in {"getOne", "getAll"}
    /\ QueryPt \in last.plan /\ Failed
    /\ rows # <<>> /\ hist # <<>> /\ redo # <<>>
    /\ rows = last.pre.rows /\ curGroup = last.pre.cur

\* the last item of the batch that names the row of item k
LastFor(k) == CHOOSE j \in DOMAIN last.args :
                  /\ last.args[j].id = last.args[k].id
                  /\ \A i \in DOMAIN last.args : last.args[i].id = last.args[k].id => i <= j

\* C35: a successful createMany or updateMany returns one row per item, in
\* the order of the items, each as it is in the table after the call: the
\* k-th row of createMany is the k-th row inserted, with the name of the
\* k-th item; the k-th row of updateMany has the id of the k-th item, also
\* when an id occurs twice, and the name the last item for that id gave.
C35_OneRowPerItemInOrder ==
    (last.op \in {"create", "update"} /\ Succeeded)
    => /\ Len(last.out.data) = BatchLen
       /\ \A k \in 1..BatchLen :
              LET r == last.out.data[k]
              IN /\ r.id \in DOMAIN rows
                 /\ r = RowOf(rows, r.id)
                 /\ last.op = "create"
                    => /\ r.id = lastInsertRowid(last.pre.rows) + k - 1
                       /\ r.name = last.args[k].name
                 /\ last.op = "update"
                    => /\ r.id = last.args[k].id
                       /\ r.name = last.args[LastFor(k)].name

C35_Witness ==
    /\ last.op = "update" /\ Succeeded
    /\ BatchLen = 2
    /\ last.args[1].id = last.args[2].id
    /\ last.args[1].name # last.args[2].name
    /\ Len(last.out.data) = 2
    /\ last.out.data[1] = last.out.data[2]
    /\ last.out.data[1].name = last.args[2].name

\* C36: createMany, updateMany and deleteMany called with an empty batch
\* and meeting no store fault return success=true with empty data and leave
\* the table, the history log (records and group tags) and the redo log as
\* they were, whatever useNextUndoGroup is.
C36_EmptyBatchSucceeds ==
    (IsMutation /\ BatchLen = 0 /\ last.plan = {})
    => /\ Succeeded
       /\ last.out.data = <<>>
       /\ last.out.error = <<>>
       /\ rows = last.pre.rows
       /\ hist = last.pre.hist
       /\ redo = last.pre.redo

C36_Witness ==
    /\ last.op = "create" /\ BatchLen = 0 /\ last.plan = {}
    /\ last.use = Some(TRUE)
    /\ Succeeded /\ last.out.data = <<>>
    /\ Cardinality(GroupsOf(hist)) >= 2
    /\ hist = last.pre.hist
    /\ curGroup = last.pre.cur + 2

\* the columns the items of the last updateMany name for row i
NamedColumns(i) ==
    UNION {DOMAIN last.args[k] \ {"id"} : k \in {j \in DOMAIN last.args : last.args[j].id = i}}

\* C37: after a successful updateMany the table has the rows it had; a row
\* whose id is not in the batch is unchanged, and in a row of the batch
\* every column but those its items name and updated_at is unchanged,
\* created_at included.
C37_UpdateTouchesNamedColumnsOnly ==
    (last.op = "update" /\ Succeeded)
    => /\ DOMAIN rows = DOMAIN last.pre.rows
       /\ \A i \in DOMAIN rows :
              /\ DOMAIN rows[i] = DOMAIN last.pre.rows[i]
              /\ i \notin Targets => rows[i] = last.pre.rows[i]
              /\ \A c \in DOMAIN rows[i] \ (NamedColumns(i) \cup {"updated_at"}) :
                     rows[i][c] = last.pre.rows[i][c]

C37_Witness ==
    /\ last.op = "update" /\ Succeeded
    /\ "created_at" \in cols /\ "updated_at" \in cols
    /\ \E i \in Targets, j \in DOMAIN rows \ Targets :
           /\ NamedColumns(i) = {"notes"}
           /\ rows[i].notes # last.pre.rows[i].notes
           /\ rows[i].name = last.pre.rows[i].name
           /\ rows[i].updated_at = now /\ now > last.pre.now
           /\ rows[i].created_at = last.pre.rows[i].created_at
           /\ rows[j] = last.pre.rows[j]

\* the group advances the last call made
Advances == curGroup - last.pre.cur

\* C38: a createMany, updateMany or deleteMany call that gets past its
\* open-group step has advanced the group exactly once there: its history
\* records carry the group after the one before the call, and the current
\* group after the call is one step on, two when its finalizer advanced it.
C38_OneGroupOpened ==
    (IsMutation /\ OpenPt \in last.hit \ last.plan)
    => /\ Advances = 1 + (IF Finalized /\ FinalPt \notin last.plan THEN 1 ELSE 0)
       /\ Folded \/ \A i \in RecordsOf(hist, ncalls) : hist[i].group = last.pre.cur + 1

====
